---- MODULE Spec2Model ----
(***************************************************************************)
(* Model of src/frontend/app.py: the session-backed authentication bridge  *)
(* (login / register / logout), the request forwarder (api_request) and    *)
(* the generic proxy endpoint (api_proxy).                                 *)
(*                                                                         *)
(* One worker handles one inbound HTTP request.  A handler runs            *)
(* sequentially; its only suspension point is the blocking outbound call   *)
(* made by api_request.  A request therefore takes one step from the       *)
(* moment the session is opened up to its next outbound call (or to its    *)
(* end), and one step per backend answer.  The session is read from the    *)
(* server-side store when the request starts and written back, whole, when *)
(* the request ends (flask_session, SESSION_TYPE = filesystem).            *)
(*                                                                         *)
(* Specifications: Spec (one browser, every route modelled), SpecHist (the *)
(* same with the history of logins and logouts), SpecTwo (two browsers),   *)
(* SpecProxy (the proxy route over several paths), SpecDash (the pages),   *)
(* SpecClock (a session over time), SpecTokens (two browsers with the      *)
(* history of the tokens they were given) and SpecFn (api_request on its   *)
(* own).                                                                   *)
(***************************************************************************)
EXTENDS Integers, FiniteSets, Sequences, Bags, TLC

VARIABLES store, inflight, last, browsers, fn, clock, expires, since, issued

vars == <<store, inflight, last, browsers, fn, clock, expires, since, issued>>

(***************************************************************************)
(* Python / JSON values.  Every value is tagged so that values of          *)
(* different types can be compared.                                        *)
(***************************************************************************)
PyNone == [t |-> "none"]

PyStr(s) == [t |-> "str", s |-> s]

PyBool(b) == [t |-> "bool", b |-> b]

PyDict(items) == [t |-> "dict", items |-> items]

\* Python truth value: None, "", {} and False are falsy.
Truthy(v) ==
    CASE v.t = "none" -> FALSE
      [] v.t = "str"  -> v.s # ""
      [] v.t = "bool" -> v.b
      [] v.t = "dict" -> v.items # {}

HasKey(d, k) == \E p \in d.items : p[1] = k

\* d[k]: defined only where CanIndex(d, k); elsewhere Python raises
\* KeyError (missing key) or TypeError (d is not a dict).
Index(d, k) == (CHOOSE p \in d.items : p[1] = k)[2]

CanIndex(d, k) == d.t = "dict" /\ HasKey(d, k)

\* d.get(k, default)
Get(d, k, default) == IF HasKey(d, k) THEN Index(d, k) ELSE default

\* d.get(...) raises AttributeError when d is not a dict.
CanGet(d) == d.t = "dict"


(***************************************************************************)
(* The session record (flask session) and the Principal (User).            *)
(***************************************************************************)
\* A session holding none of the keys the application uses; session.get
\* answers None for each of them.  user_id is flask_login's "_user_id".
EmptySession ==
    [user_data |-> PyNone, access_token |-> PyNone,
     refresh_token |-> PyNone, user_id |-> PyNone]

\* A constructor that reads the last name from the wrong key.
User_WrongKey(user_data, token) ==
    [id         |-> Get(user_data, "id", PyNone),
     email      |-> Get(user_data, "email", PyNone),
     first_name |-> Get(user_data, "firstName", PyNone),
     last_name  |-> Get(user_data, "firstName", PyNone),
     role       |-> Get(user_data, "role", PyNone),
     department |-> Get(user_data, "department", PyNone),
     job_title  |-> Get(user_data, "jobTitle", PyNone),
     avatar     |-> Get(user_data, "avatar", PyNone),
     token      |-> token]

\* class User: every attribute is user_data.get(<key>), the token is kept
\* as given.  Defined where CanGet(user_data).
User(user_data, token) ==
    [id         |-> Get(user_data, "id", PyNone),
     email      |-> Get(user_data, "email", PyNone),
     first_name |-> Get(user_data, "firstName", PyNone),
     last_name  |-> Get(user_data, "lastName", PyNone),
     role       |-> Get(user_data, "role", PyNone),
     department |-> Get(user_data, "department", PyNone),
     job_title  |-> Get(user_data, "jobTitle", PyNone),
     avatar     |-> Get(user_data, "avatar", PyNone),
     token      |-> token]

\* A loader that does not look at the access token.
load_user_ProfileOnly(session) ==
    IF Truthy(session.user_data)
    THEN User(session.user_data, session.access_token)
    ELSE PyNone

\* load_user: a User when both user_data and access_token are truthy,
\* None otherwise.
load_user(session) ==
    IF Truthy(session.user_data) /\ Truthy(session.access_token)
    THEN User(session.user_data, session.access_token)
    ELSE PyNone

\* flask_login's current_user: the user loader is consulted only when the
\* session carries "_user_id"; no user means the anonymous user.  (The
\* remember cookie set by login_user(remember=True) can only supply
\* "_user_id" again; the loader still reads user_data and access_token
\* from the session, so the cookie alone never yields a user.)
current_user(session) ==
    IF session.user_id # PyNone THEN load_user(session) ELSE PyNone

is_authenticated(user) == user # PyNone

\* UserMixin.get_id(): str(self.id), so a missing id becomes "None".
get_id(user) == IF user.id = PyNone THEN PyStr("None") ELSE user.id

\* login_user(user, remember=True): stores the id under "_user_id".
login_user(session, user) == [session EXCEPT !.user_id = get_id(user)]

\* logout_user(): removes "_user_id".
logout_user(session) == [session EXCEPT !.user_id = PyNone]

\* session.clear()
session_clear(session) == EmptySession

(***************************************************************************)
(* api_request: header construction, dispatch and result.                  *)
(***************************************************************************)
SupportedMethods == {"GET", "POST", "PUT", "DELETE"}

\* The value of a keyword argument that is not passed to requests.
NotSent == [t |-> "notsent"]

\* Headers that prefer the session's token to the explicit one.
ApiHeaders_SessionFirst(token, user) ==
    LET base == {<<"Content-Type", "application/json">>}
    IN  IF is_authenticated(user)
        THEN base \cup {<<"Authorization", <<"Bearer", user.token>> >>}
        ELSE IF Truthy(token)
             THEN base \cup {<<"Authorization", <<"Bearer", token>> >>}
             ELSE base

\* Lines 92-97: Content-Type always; Authorization from the explicit token
\* when truthy, else from the authenticated current user, else not at all.
\* headers is a dict: a set of <<name, value>> pairs.
ApiHeaders(token, user) ==
    LET base == {<<"Content-Type", "application/json">>}
    IN  IF Truthy(token)
        THEN base \cup {<<"Authorization", <<"Bearer", token>> >>}
        ELSE IF is_authenticated(user)
             THEN base \cup {<<"Authorization", <<"Bearer", user.token>> >>}
             ELSE base

\* Lines 100-109: the transport call made for a method; none for a method
\* outside GET/POST/PUT/DELETE.
NoCall == [verb |-> "none"]

ApiCall(method, endpoint, data, token, user) ==
    LET h == ApiHeaders(token, user)
    IN  CASE method = "GET" ->
               [verb |-> "GET", endpoint |-> endpoint, headers |-> h,
                params |-> data, json |-> NotSent, timeout |-> 10]
          [] method = "POST" ->
               [verb |-> "POST", endpoint |-> endpoint, headers |-> h,
                params |-> NotSent, json |-> data, timeout |-> 10]
          [] method = "PUT" ->
               [verb |-> "PUT", endpoint |-> endpoint, headers |-> h,
                params |-> NotSent, json |-> data, timeout |-> 10]
          [] method = "DELETE" ->
               [verb |-> "DELETE", endpoint |-> endpoint, headers |-> h,
                params |-> NotSent, json |-> NotSent, timeout |-> 10]
          [] OTHER -> NoCall

\* An invocation of api_request (line 89): its arguments, and the transport
\* call it makes for them in a request whose user is user.
NoArgs == [method |-> "-"]

Invoke(method, endpoint, data, token, user) ==
    [args |-> [method |-> method, endpoint |-> endpoint, data |-> data,
               token |-> token],
     call |-> ApiCall(method, endpoint, data, token, user)]

\* Outcomes of the transport call.  "json": response.json() parsed the
\* body.  "exc": requests raised a RequestException (ConnectionError for a
\* refused connection or a DNS failure, Timeout, JSONDecodeError for a body
\* that is not JSON).
TransportOk(body) == [kind |-> "json", body |-> body]

TransportFailure(cause) == [kind |-> "exc", cause |-> cause]

NoOutcome == [kind |-> "none"]

FailureCauses == {"refused", "timeout", "dns", "malformed"}

\* A synthetic failure that carries no message.
SyntheticFailure_NoMessage == PyDict({<<"success", PyBool(FALSE)>>})

\* Line 114: what api_request returns for a transport failure.
SyntheticFailure ==
    PyDict({<<"success", PyBool(FALSE)>>,
            <<"error", PyStr("API connection failed")>>})

\* Lines 99-114: {"ret", value} for a return, "raise" when an exception
\* leaves api_request.
Returned(v) == [how |-> "ret", value |-> v]

Raised == [how |-> "raise"]

\* An except clause that catches timeouts only.
ApiResult_TimeoutOnly(method, outcome) ==
    IF method \notin SupportedMethods
    THEN Returned(PyNone)
    ELSE IF outcome.kind = "exc"
         THEN IF outcome.cause = "timeout"
              THEN Returned(SyntheticFailure) ELSE Raised
         ELSE Returned(outcome.body)

ApiResult(method, outcome) ==
    IF method \notin SupportedMethods
    THEN Returned(PyNone)
    ELSE IF outcome.kind = "exc"
         THEN Returned(SyntheticFailure)
         ELSE Returned(outcome.body)

(***************************************************************************)
(* Inputs: what the backend may answer, what the browser may send.         *)
(***************************************************************************)
\* Requests that may be in flight at once (one worker per request).
NumWorkers == 2

AllBrowsers == {"b1", "b2"}

\* A complete profile (with one key the Principal does not keep) and a
\* sparse one.
UserAna ==
    PyDict({<<"id", PyStr("u1")>>, <<"email", PyStr("ana@example.com")>>,
            <<"firstName", PyStr("Ana")>>, <<"lastName", PyStr("Lee")>>,
            <<"role", PyStr("ADMIN")>>, <<"department", PyStr("IT")>>,
            <<"jobTitle", PyStr("SRE")>>, <<"avatar", PyStr("ana.png")>>,
            <<"phone", PyStr("555")>>})

UserBo == PyDict({<<"id", PyStr("u2")>>, <<"firstName", PyStr("Bo")>>})

Envelope(success, rest) == PyDict({<<"success", PyBool(success)>>} \cup rest)

LoginData(user, token, rest) ==
    <<"data", PyDict({<<"user", user>>, <<"accessToken", token>>} \cup rest)>>

\* Bodies the backend may return to POST /auth/login.
LoginBodies ==
    { Envelope(TRUE, {LoginData(UserAna, PyStr("tok1"),
                                {<<"refreshToken", PyStr("ref1")>>})}),
      Envelope(TRUE, {LoginData(UserBo, PyStr("tok2"), {})}),
      Envelope(TRUE, {LoginData(PyDict({}), PyStr("tok1"), {})}),
      Envelope(TRUE, {LoginData(UserAna, PyStr(""), {})}),
      Envelope(TRUE, {LoginData(PyNone, PyStr("tok1"), {})}),
      Envelope(TRUE, {<<"data", PyDict({<<"accessToken", PyStr("tok1")>>})>>}),
      Envelope(TRUE, {}),
      Envelope(FALSE, {<<"error", PyStr("Invalid credentials")>>}),
      Envelope(FALSE, {}),
      PyDict({<<"error", PyStr("Bad request")>>}),
      PyDict({}),
      PyNone }

\* Bodies the backend may return to any other call: an envelope with
\* data, a reported failure with and without a message, an empty object.
OkBody == Envelope(TRUE, {<<"data", PyDict({<<"n", PyStr("1")>>})>>})

ForbiddenBody == Envelope(FALSE, {<<"error", PyStr("Forbidden")>>})

\* The transport failure tried in the request state machine (api_request
\* treats every cause alike; ApiResult is checked against each cause in
\* the forwarder's own specification).
SomeFailure == TransportFailure("timeout")

LoginOutcomes == {TransportOk(b) : b \in LoginBodies} \cup {SomeFailure}

RegisterOutcomes ==
    {TransportOk(b) : b \in {OkBody, ForbiddenBody, Envelope(FALSE, {}),
                             PyDict({})}}
        \cup {SomeFailure}

OtherOutcomes ==
    {TransportOk(b) : b \in {OkBody, ForbiddenBody}} \cup {SomeFailure}

PageOutcomes ==
    {TransportOk(b) : b \in {OkBody, ForbiddenBody, PyDict({})}}
        \cup {SomeFailure}

\* request.form of the login page.
LoginForm ==
    PyDict({<<"email", PyStr("ana@example.com")>>,
            <<"password", PyStr("pw")>>})

\* A formatted message: f"...{value}...".
FStr(parts) == [t |-> "fstr", parts |-> parts]

(***************************************************************************)
(* Configuration and the checks made before a view is entered.             *)
(***************************************************************************)
\* PERMANENT_SESSION_LIFETIME = timedelta(hours=24), in hours.
PERMANENT_SESSION_LIFETIME == 24

\* CSRFProtect(app), line 50, with WTF_CSRF_ENABLED (line 35): before a view
\* is entered the request's token is validated when the method is one of
\* flask_wtf's WTF_CSRF_METHODS and the view is not exempt.  Line 644
\* exempts api_proxy; no other view is exempt.
CsrfMethods == {"POST", "PUT", "PATCH", "DELETE"}

CsrfExempt == {"proxy"}

\* The request is refused (400) before the view is entered.
csrf_protect(kind, method, csrf) ==
    /\ method \in CsrfMethods
    /\ kind \notin CsrfExempt
    /\ csrf # "valid"

\* What a request carries besides its method: whether it has a valid CSRF
\* token (a form of the application posts one; a link, a script or a
\* page of another site has none) and, for the proxy route, the
\* <path:endpoint> part of its URL.
CsrfTokens == {"valid", "missing"}

\* A form is posted with or without a valid token; a GET request (a link)
\* and a script's call to the proxy carry none.
FormTokens(method) == IF method = "POST" THEN CsrfTokens ELSE {"missing"}

Req(csrf, endpoint) == [csrf |-> csrf, endpoint |-> endpoint]

NoReq == Req("missing", "-")

(***************************************************************************)
(* Request handling.                                                       *)
(***************************************************************************)
\* No request of the same kind and browser was answered in the step before.
NoPrev == [kind |-> "-", called |-> FALSE]

NoLast ==
    [b |-> "-", kind |-> "-", method |-> "-", req |-> NoReq,
     loaded |-> EmptySession, sess |-> EmptySession,
     outcome |-> NoOutcome, status |-> "-", flashed |-> PyNone,
     body |-> PyNone, ncalls |-> 0, args |-> NoArgs, call |-> NoCall,
     got |-> << >>, prev |-> NoPrev]

\* A store that keeps one record for every browser.
OpenSession_OneRecord(b) == store[CHOOSE x \in AllBrowsers : TRUE]

\* open_session: the record stored for the browser's session id.
OpenSession(b) == store[b]

\* A worker is free to take a request.
WorkerFree == BagCardinality(inflight) < NumWorkers

\* The handler stops at a blocking outbound call: the request joins the
\* requests in flight, with the session it loaded (loaded), its session as
\* it is now (sess), the invocation of api_request it waits for (args), the
\* transport call made for it (call) and what its earlier invocations of
\* api_request returned (got).
Suspend(b, kind, method, req, loaded, sess, ncalls, inv) ==
    /\ inflight' = inflight (+) SetToBag({
                     [b |-> b, kind |-> kind, method |-> method, req |-> req,
                      loaded |-> loaded, sess |-> sess,
                      ncalls |-> ncalls, args |-> inv.args,
                      call |-> inv.call, got |-> << >>]})
    /\ last' = NoLast
    /\ UNCHANGED <<store, browsers, fn, clock, expires, since, issued>>

\* save_session at the end of a request (flask_session, SESSION_TYPE
\* filesystem, line 31): a session that holds something is written whole
\* under its id with a lifetime of PERMANENT_SESSION_LIFETIME from now; an
\* empty one leaves no record.
SaveExpiry(sess) ==
    IF sess = EmptySession THEN {} ELSE {clock + PERMANENT_SESSION_LIFETIME}

\* since is a history variable, kept for the browsers in its domain:
\* since[b] is the time of the save of the last login of b that succeeded,
\* empty before the first one and after a logout cleared the session.
SinceAfter(b, kind, outcome, status) ==
    IF b \notin DOMAIN since THEN since
    ELSE IF kind = "login" /\ status = "redirect:next"
    THEN [since EXCEPT ![b] = {clock}]
    ELSE IF kind = "logout" /\ outcome # NoOutcome /\ status = "redirect:login"
    THEN [since EXCEPT ![b] = {}]
    ELSE since

\* issued is a history variable, kept for the browsers in its domain:
\* issued[b] holds the access tokens and the refresh tokens that the backend
\* returned in the logins of b that succeeded (lines 161 and 166).
NoneIssued == [access |-> {}, refresh |-> {}]

IssuedAfter(b, kind, outcome, status) ==
    IF b \notin DOMAIN issued THEN issued
    ELSE IF kind = "login" /\ status = "redirect:next"
    THEN LET data == Index(outcome.body, "data")
         IN  [issued EXCEPT
                ![b] = [access |-> @.access \cup {Index(data, "accessToken")},
                        refresh |-> @.refresh \cup
                            (IF HasKey(data, "refreshToken")
                             THEN {Index(data, "refreshToken")} ELSE {})]]
    ELSE issued

\* The handler has produced its response; save_session writes the whole
\* session back (write = FALSE only for an empty, unmodified session).
\* last is the response just delivered; prev tells, for a request that is
\* answered in one step, that a request of the same kind and browser was
\* answered in the step before (and whether that one called the backend).
Finish(b, kind, method, req, loaded, sess, outcome, status, flashed, body, ncalls, inv, got, write, prev) ==
    /\ store' = IF write THEN [store EXCEPT ![b] = sess] ELSE store
    /\ expires' = IF write THEN [expires EXCEPT ![b] = SaveExpiry(sess)]
                  ELSE expires
    /\ since' = SinceAfter(b, kind, outcome, status)
    /\ issued' = IssuedAfter(b, kind, outcome, status)
    /\ last' = [b |-> b, kind |-> kind, method |-> method, req |-> req,
                loaded |-> loaded, sess |-> sess, outcome |-> outcome,
                status |-> status, flashed |-> flashed, body |-> body,
                ncalls |-> ncalls, args |-> inv.args, call |-> inv.call,
                got |-> got, prev |-> prev]
    /\ UNCHANGED <<browsers, fn, clock>>

\* A request answered without an outbound call.
Complete(b, kind, method, req, loaded, sess, outcome, status, flashed, body, ncalls, call, write) ==
    /\ UNCHANGED inflight
    /\ Finish(b, kind, method, req, loaded, sess, outcome, status, flashed,
              body, ncalls, [args |-> NoArgs, call |-> call], << >>, write,
              IF last.b = b /\ last.kind = kind
              THEN [kind |-> last.kind, called |-> last.ncalls > 0]
              ELSE NoPrev)

\* What the request has got from api_request once the call it waits for
\* has ended in outcome.
GotAfter(r, outcome) ==
    LET res == ApiResult(r.args.method, outcome)
    IN  IF res.how = "raise" THEN r.got ELSE Append(r.got, res.value)

\* A request in flight answered after its outbound call.
CompleteReq(r, sess, outcome, status, flashed, body) ==
    /\ inflight' = inflight (-) SetToBag({r})
    /\ Finish(r.b, r.kind, r.method, r.req, r.loaded, sess, outcome, status,
              flashed, body, r.ncalls, [args |-> r.args, call |-> r.call],
              GotAfter(r, outcome), TRUE, NoPrev)

\* CSRFProtect.protect() refused the request: 400, the view is not entered.
CsrfRefused(b, kind, method, req, sess) ==
    Complete(b, kind, method, req, sess, sess, NoOutcome, "error400",
             PyNone, PyNone, 0, NoCall, TRUE)

Awaiting(kind) == {r \in BagToSet(inflight) : r.kind = kind}

\* login(), lines 159-179: what the handler does with api_request's
\* result.  Yields the session, the response and the flashed message.
Outcome3(sess, status, flashed) ==
    [sess |-> sess, status |-> status, flashed |-> flashed]

\* A success branch that keeps the refresh token, when there is one, as
\* the session's access token.
LoginSuccess_StoresRefresh(sess, response) ==
    IF ~CanIndex(response, "data")
    THEN Outcome3(sess, "error500", PyNone)
    ELSE
    LET data == Index(response, "data") IN
    IF ~CanIndex(data, "user") \/ ~CanIndex(data, "accessToken")
    THEN Outcome3(sess, "error500", PyNone)
    ELSE
    LET user_data == Index(data, "user")
        token     == Index(data, "accessToken")
        stored    == [sess EXCEPT
                        !.user_data = user_data,
                        !.access_token = Get(data, "refreshToken", token),
                        !.refresh_token = Get(data, "refreshToken", PyNone)]
    IN  IF ~CanGet(user_data)
        THEN Outcome3(stored, "error500", PyNone)
        ELSE LET user == User(user_data, token)
             IN  Outcome3(login_user(stored, user), "redirect:next",
                          FStr(<<"Welcome back, ", user.first_name, "!">>))

\* Lines 160-176: the success branch.  A missing key raises before the
\* session is touched; a user object that is not a dict makes User() raise
\* after the three session assignments.
LoginSuccess(sess, response) ==
    IF ~CanIndex(response, "data")
    THEN Outcome3(sess, "error500", PyNone)
    ELSE
    LET data == Index(response, "data") IN
    IF ~CanIndex(data, "user") \/ ~CanIndex(data, "accessToken")
    THEN Outcome3(sess, "error500", PyNone)
    ELSE
    LET user_data == Index(data, "user")
        token     == Index(data, "accessToken")
        stored    == [sess EXCEPT
                        !.user_data = user_data,
                        !.access_token = token,
                        !.refresh_token = Get(data, "refreshToken", PyNone)]
    IN  IF ~CanGet(user_data)
        THEN Outcome3(stored, "error500", PyNone)
        ELSE LET user == User(user_data, token)
             IN  Outcome3(login_user(stored, user), "redirect:next",
                          FStr(<<"Welcome back, ", user.first_name, "!">>))

\* A failure branch that keeps the attempted credentials in the session.
LoginFailure_KeepsForm(sess, response) ==
    Outcome3([sess EXCEPT !.user_data = LoginForm], "render:login",
             IF Truthy(response)
             THEN Get(response, "error", PyStr("Login failed"))
             ELSE PyStr("API connection failed"))

\* Lines 177-181: the failure branch flashes a message and renders the
\* login page.
LoginFailure(sess, response) ==
    Outcome3(sess, "render:login",
             IF Truthy(response)
             THEN Get(response, "error", PyStr("Login failed"))
             ELSE PyStr("API connection failed"))

\* Line 159: response and response.get('success').
LoginAfter(sess, res) ==
    IF res.how = "raise" THEN Outcome3(sess, "error500", PyNone)
    ELSE IF Truthy(res.value) /\ ~CanGet(res.value)
    THEN Outcome3(sess, "error500", PyNone)
    ELSE IF Truthy(res.value) /\ Truthy(Get(res.value, "success", PyNone))
    THEN LoginSuccess(sess, res.value)
    ELSE LoginFailure(sess, res.value)

\* A login view without the is_authenticated redirect.
LoginBegin_NoGuard(b, method, csrf) ==
    /\ WorkerFree
    /\ LET sess == OpenSession(b)
           user == current_user(sess)
           req  == Req(csrf, "-")
       IN  IF csrf_protect("login", method, csrf)
           THEN CsrfRefused(b, "login", method, req, sess)
           ELSE IF method = "POST"
           THEN Suspend(b, "login", method, req, sess, sess, 1,
                        Invoke("POST", "/auth/login", LoginForm, PyNone, user))
           ELSE Complete(b, "login", method, req, sess, sess, NoOutcome,
                         "render:login", PyNone, PyNone, 0, NoCall, TRUE)

\* login(), lines 144-157, behind the CSRF check.
LoginBegin(b, method, csrf) ==
    /\ WorkerFree
    /\ LET sess == OpenSession(b)
           user == current_user(sess)
           req  == Req(csrf, "-")
       IN  IF csrf_protect("login", method, csrf)
           THEN CsrfRefused(b, "login", method, req, sess)
           ELSE IF is_authenticated(user)
           THEN Complete(b, "login", method, req, sess, sess, NoOutcome,
                         "redirect:dashboard", PyNone, PyNone, 0, NoCall,
                         TRUE)
           ELSE IF method = "POST"
           THEN Suspend(b, "login", method, req, sess, sess, 1,
                        Invoke("POST", "/auth/login", LoginForm, PyNone, user))
           ELSE \E write \in BOOLEAN :
                  /\ sess # EmptySession => write
                  /\ Complete(b, "login", method, req, sess, sess, NoOutcome,
                              "render:login", PyNone, PyNone, 0, NoCall,
                              write)

LoginRespond(r, outcome) ==
    /\ r \in Awaiting("login")
    /\ LET o == LoginAfter(r.sess, ApiResult("POST", outcome))
       IN  CompleteReq(r, o.sess, outcome, o.status, o.flashed, PyNone)

\* request.form of the registration page, as register() sends it.
RegisterForm ==
    PyDict({<<"email", PyStr("bo@example.com")>>, <<"password", PyStr("pw")>>,
            <<"firstName", PyStr("Bo")>>, <<"lastName", PyStr("Ng")>>,
            <<"phone", PyStr("555")>>, <<"department", PyStr("IT")>>,
            <<"jobTitle", PyStr("SRE")>>})

\* A registration that signs the new user in with the answer's data.
RegisterAfter_SignsIn(sess, res) ==
    IF res.how = "raise" THEN Outcome3(sess, "error500", PyNone)
    ELSE
    LET response == res.value IN
    IF Truthy(response) /\ ~CanGet(response)
    THEN Outcome3(sess, "error500", PyNone)
    ELSE IF Truthy(response) /\ Truthy(Get(response, "success", PyNone))
    THEN Outcome3([sess EXCEPT !.user_data = Get(response, "data", PyNone)],
                  "redirect:login",
                  PyStr("Registration successful! Your account is pending approval."))
    ELSE Outcome3(sess, "render:register",
                  IF Truthy(response)
                  THEN Get(response, "error", PyStr("Registration failed"))
                  ELSE PyStr("API connection failed"))

\* register(), lines 203-208.
RegisterAfter(sess, res) ==
    IF res.how = "raise" THEN Outcome3(sess, "error500", PyNone)
    ELSE
    LET response == res.value IN
    IF Truthy(response) /\ ~CanGet(response)
    THEN Outcome3(sess, "error500", PyNone)
    ELSE IF Truthy(response) /\ Truthy(Get(response, "success", PyNone))
    THEN Outcome3(sess, "redirect:login",
                  PyStr("Registration successful! Your account is pending approval."))
    ELSE Outcome3(sess, "render:register",
                  IF Truthy(response)
                  THEN Get(response, "error", PyStr("Registration failed"))
                  ELSE PyStr("API connection failed"))

\* register(), lines 184-201, behind the CSRF check.
RegisterBegin(b, method, csrf) ==
    /\ WorkerFree
    /\ LET sess == OpenSession(b)
           user == current_user(sess)
           req  == Req(csrf, "-")
       IN  IF csrf_protect("register", method, csrf)
           THEN CsrfRefused(b, "register", method, req, sess)
           ELSE IF is_authenticated(user)
           THEN Complete(b, "register", method, req, sess, sess, NoOutcome,
                         "redirect:dashboard", PyNone, PyNone, 0, NoCall,
                         TRUE)
           ELSE IF method = "POST"
           THEN Suspend(b, "register", method, req, sess, sess, 1,
                        Invoke("POST", "/auth/register", RegisterForm,
                                PyNone, user))
           ELSE \E write \in BOOLEAN :
                  /\ sess # EmptySession => write
                  /\ Complete(b, "register", method, req, sess, sess, NoOutcome,
                              "render:register", PyNone, PyNone, 0, NoCall,
                              write)

RegisterRespond(r, outcome) ==
    /\ r \in Awaiting("register")
    /\ LET o == RegisterAfter(r.sess, ApiResult("POST", outcome))
       IN  CompleteReq(r, o.sess, outcome, o.status, o.flashed, PyNone)

\* A login manager without a login view: unauthorized() aborts with 401.
Unauthorized_Abort(b, kind, method, req, sess) ==
    Complete(b, kind, method, req, sess, sess, NoOutcome, "error401",
             PyNone, PyNone, 0, NoCall, TRUE)

\* @login_required for a request without an authenticated user:
\* login_manager.unauthorized() flashes login_message and redirects to the
\* login view; the view function is not entered.
Unauthorized(b, kind, method, req, sess) ==
    Complete(b, kind, method, req, sess, sess, NoOutcome, "redirect:login",
             PyStr("Please log in to access this page."), PyNone, 0, NoCall,
             TRUE)

\* logout(), lines 213-217: a GET route, so the CSRF check lets it pass.
LogoutBegin(b, csrf) ==
    /\ WorkerFree
    /\ LET sess == OpenSession(b)
           user == current_user(sess)
           req  == Req(csrf, "-")
       IN  IF csrf_protect("logout", "GET", csrf)
           THEN CsrfRefused(b, "logout", "GET", req, sess)
           ELSE IF ~is_authenticated(user)
           THEN Unauthorized(b, "logout", "GET", req, sess)
           ELSE Suspend(b, "logout", "GET", req, sess, sess, 1,
                        Invoke("POST", "/auth/logout", PyNone, PyNone, user))

\* A logout that clears the session only when the backend agreed.
LogoutAfter_OnlyOnSuccess(sess, res) ==
    IF res.how = "raise" THEN Outcome3(sess, "error500", PyNone)
    ELSE IF Truthy(res.value) /\ Truthy(Get(res.value, "success", PyNone))
    THEN Outcome3(session_clear(logout_user(sess)), "redirect:login",
                  PyStr("You have been logged out."))
    ELSE Outcome3(sess, "redirect:login", PyStr("Logout failed"))

\* logout(), lines 217-221: the result of api_request is not looked at.
LogoutAfter(sess, res) ==
    IF res.how = "raise" THEN Outcome3(sess, "error500", PyNone)
    ELSE Outcome3(session_clear(logout_user(sess)), "redirect:login",
                  PyStr("You have been logged out."))

LogoutRespond(r, outcome) ==
    /\ r \in Awaiting("logout")
    /\ LET o == LogoutAfter(r.sess, ApiResult("POST", outcome))
       IN  CompleteReq(r, o.sess, outcome, o.status, o.flashed, PyNone)

\* What the browser sends to the proxy: a JSON body and a query string.
ReqJson == PyDict({<<"title", PyStr("x")>>})

ReqArgs == PyDict({<<"state", PyStr("OPEN")>>})

ProxyPaths == {"incidents"}

\* A proxy route without @login_required.
ProxyBegin_NoLoginRequired(b, method, endpoint, csrf) ==
    /\ WorkerFree
    /\ LET sess == OpenSession(b)
           user == current_user(sess)
           req  == Req(csrf, endpoint)
           data == IF method \in {"POST", "PUT"} THEN ReqJson ELSE ReqArgs
       IN  Suspend(b, "proxy", method, req, sess, sess, 1,
                   Invoke(method, "/" \o endpoint, data, PyNone, user))

\* api_proxy(), lines 642-648; the route is exempt from the CSRF check.
ProxyBegin(b, method, endpoint, csrf) ==
    /\ WorkerFree
    /\ LET sess == OpenSession(b)
           user == current_user(sess)
           req  == Req(csrf, endpoint)
       IN  IF csrf_protect("proxy", method, csrf)
           THEN CsrfRefused(b, "proxy", method, req, sess)
           ELSE IF ~is_authenticated(user)
           THEN Unauthorized(b, "proxy", method, req, sess)
           ELSE LET data == IF method \in {"POST", "PUT"}
                            THEN ReqJson ELSE ReqArgs
                IN  Suspend(b, "proxy", method, req, sess, sess, 1,
                            Invoke(method, "/" \o endpoint, data, PyNone,
                                    user))

\* A proxy that answers with the data field of the result only.
ProxyRespond_DataOnly(r, outcome) ==
    /\ r \in Awaiting("proxy")
    /\ LET res == ApiResult(r.method, outcome)
       IN  IF res.how = "raise"
           THEN CompleteReq(r, r.sess, outcome, "error500", PyNone, PyNone)
           ELSE CompleteReq(r, r.sess, outcome, "json", PyNone,
                            Get(res.value, "data", PyNone))

\* api_proxy(), lines 648-649: jsonify(response).
ProxyRespond(r, outcome) ==
    /\ r \in Awaiting("proxy")
    /\ LET res == ApiResult(r.method, outcome)
       IN  IF res.how = "raise"
           THEN CompleteReq(r, r.sess, outcome, "error500", PyNone, PyNone)
           ELSE CompleteReq(r, r.sess, outcome, "json", PyNone, res.value)

\* dashboard(), lines 228-236: three calls to the backend, one after the
\* other.
DashEndpoints == <<"/dashboard", "/dashboard/kpis", "/dashboard/quick-stats">>

\* The dashboard request waiting for its next call.
DashWaiting(b, req, loaded, got) ==
    LET inv == Invoke("GET", DashEndpoints[Len(got) + 1], PyNone, PyNone,
                      current_user(loaded))
    IN  [b |-> b, kind |-> "dashboard", method |-> "GET", req |-> req,
         loaded |-> loaded, sess |-> loaded, ncalls |-> Len(got) + 1,
         args |-> inv.args, call |-> inv.call, got |-> got]

DashBegin(b, csrf) ==
    /\ WorkerFree
    /\ LET sess == OpenSession(b)
           user == current_user(sess)
           req  == Req(csrf, "-")
       IN  IF csrf_protect("dashboard", "GET", csrf)
           THEN CsrfRefused(b, "dashboard", "GET", req, sess)
           ELSE IF ~is_authenticated(user)
           THEN Unauthorized(b, "dashboard", "GET", req, sess)
           ELSE /\ inflight' = inflight (+)
                                 SetToBag({DashWaiting(b, req, sess, << >>)})
                /\ last' = NoLast
                /\ UNCHANGED <<store, browsers, fn, clock, expires, since, issued>>

\* Lines 239-241: x.get('data') if x else {}.
TemplateValue(x) == IF Truthy(x) THEN Get(x, "data", PyNone) ELSE PyDict({})

\* dashboard(), lines 234-242: the next call, or render_template after the
\* third.
DashRespond(r, outcome) ==
    /\ r \in Awaiting("dashboard")
    /\ LET got == GotAfter(r, outcome)
       IN  IF Len(got) < Len(DashEndpoints)
           THEN /\ inflight' = (inflight (-) SetToBag({r})) (+)
                                 SetToBag({DashWaiting(r.b, r.req, r.loaded,
                                                       got)})
                /\ last' = NoLast
                /\ UNCHANGED <<store, browsers, fn, clock, expires, since, issued>>
           ELSE IF \E i \in 1..Len(got) : Truthy(got[i]) /\ ~CanGet(got[i])
           THEN CompleteReq(r, r.sess, outcome, "error500", PyNone, PyNone)
           ELSE CompleteReq(r, r.sess, outcome, "render:dashboard", PyNone,
                            PyDict({<<"dashboard_data", TemplateValue(got[1])>>,
                                    <<"kpis", TemplateValue(got[2])>>,
                                    <<"quick_stats", TemplateValue(got[3])>>}))

\* integrations(), lines 610-614: a page route with one backend call.
PageBegin(b, csrf) ==
    /\ WorkerFree
    /\ LET sess == OpenSession(b)
           user == current_user(sess)
           req  == Req(csrf, "-")
       IN  IF csrf_protect("page", "GET", csrf)
           THEN CsrfRefused(b, "page", "GET", req, sess)
           ELSE IF ~is_authenticated(user)
           THEN Unauthorized(b, "page", "GET", req, sess)
           ELSE Suspend(b, "page", "GET", req, sess, sess, 1,
                        Invoke("GET", "/integrations", PyNone, PyNone, user))

\* integrations(), lines 615-617: response.get('data', []) if response
\* else [].
EmptyList == [t |-> "list", items |-> << >>]

PageRespond(r, outcome) ==
    /\ r \in Awaiting("page")
    /\ LET res == ApiResult("GET", outcome)
       IN  IF res.how = "raise" \/ (Truthy(res.value) /\ ~CanGet(res.value))
           THEN CompleteReq(r, r.sess, outcome, "error500", PyNone, PyNone)
           ELSE CompleteReq(r, r.sess, outcome, "render:integrations", PyNone,
                            IF Truthy(res.value)
                            THEN Get(res.value, "data", EmptyList)
                            ELSE EmptyList)

\* PERMANENT_SESSION_LIFETIME: the stored record is gone once its lifetime
\* has run out.
Expire(b) ==
    /\ store[b] # EmptySession
    /\ store' = [store EXCEPT ![b] = EmptySession]
    /\ expires' = [expires EXCEPT ![b] = {}]
    /\ last' = NoLast
    /\ UNCHANGED <<inflight, browsers, fn, clock, since, issued>>

\* Time passes, in hours, up to MaxClock.  A record whose lifetime has run
\* out is gone: the store answers an expired record like a missing one.
MaxClock == 48

TickHours == {12}

Expired(b, now) == \E t \in expires[b] : t <= now

Tick(h) ==
    /\ clock + h <= MaxClock
    /\ clock' = clock + h
    /\ store' = [b \in AllBrowsers |->
                   IF Expired(b, clock + h) THEN EmptySession ELSE store[b]]
    /\ expires' = [b \in AllBrowsers |->
                     IF Expired(b, clock + h) THEN {} ELSE expires[b]]
    /\ last' = NoLast
    /\ UNCHANGED <<inflight, browsers, fn, since, issued>>

(***************************************************************************)
(* The forwarder on its own: api_request called with arguments drawn from  *)
(* bounded sets, in a request whose session is sess.                       *)
(***************************************************************************)
FnOff ==
    [phase |-> "off", method |-> "-", data |-> PyNone, token |-> PyNone,
     sess |-> EmptySession, call |-> NoCall, ncalls |-> 0,
     outcome |-> NoOutcome, result |-> Raised]

FnMethods == SupportedMethods \cup {"PATCH", "HEAD"}

FnTokens == {PyNone, PyStr(""), PyStr("tokX")}

FnData == {PyNone, ReqArgs}

AnaSession ==
    [user_data |-> UserAna, access_token |-> PyStr("tok1"),
     refresh_token |-> PyStr("ref1"), user_id |-> PyStr("u1")]

FnSessions ==
    { EmptySession, AnaSession,
      [AnaSession EXCEPT !.access_token = PyStr("")],
      [AnaSession EXCEPT !.user_data = PyDict({})] }

FnOutcomes ==
    {TransportOk(b) : b \in {OkBody, ForbiddenBody, PyDict({}), PyNone}}
        \cup {TransportFailure(c) : c \in FailureCauses}

\* api_request, lines 91-109: up to the transport call.
ApiRequestCall ==
    /\ fn.phase = "args"
    /\ LET call == ApiCall(fn.method, "/x", fn.data, fn.token,
                           current_user(fn.sess))
       IN  fn' = IF call = NoCall
                 THEN [fn EXCEPT !.phase = "returned",
                                 !.result = ApiResult(fn.method, NoOutcome)]
                 ELSE [fn EXCEPT !.phase = "sent", !.call = call,
                                 !.ncalls = fn.ncalls + 1]
    /\ UNCHANGED <<store, inflight, last, browsers, clock, expires, since, issued>>

\* A forwarder that tries once more after a transport failure.
ApiRequestReturn_Retry(outcome) ==
    /\ fn.phase = "sent"
    /\ fn' = IF outcome.kind = "exc" /\ fn.ncalls < 2
             THEN [fn EXCEPT !.phase = "args"]
             ELSE [fn EXCEPT !.phase = "returned", !.outcome = outcome,
                             !.result = ApiResult(fn.method, outcome)]
    /\ UNCHANGED <<store, inflight, last, browsers, clock, expires, since, issued>>

\* api_request, lines 111-114: the transport call ends.
ApiRequestReturn(outcome) ==
    /\ fn.phase = "sent"
    /\ fn' = [fn EXCEPT !.phase = "returned", !.outcome = outcome,
                        !.result = ApiResult(fn.method, outcome)]
    /\ UNCHANGED <<store, inflight, last, browsers, clock, expires, since, issued>>

InitFn ==
    /\ browsers = {}
    /\ store = [b \in AllBrowsers |-> EmptySession]
    /\ inflight = EmptyBag
    /\ last = NoLast
    /\ clock = 0
    /\ expires = [b \in AllBrowsers |-> {}]
    /\ since = << >>
    /\ issued = << >>
    /\ fn \in {[FnOff EXCEPT !.phase = "args", !.method = m, !.data = d,
                             !.token = t, !.sess = s] :
                 m \in FnMethods, d \in FnData, t \in FnTokens,
                 s \in FnSessions}

NextFn ==
    \/ ApiRequestCall
    \/ \E o \in FnOutcomes : ApiRequestReturn(o)

SpecFn == InitFn /\ [][NextFn]_vars

Init ==
    /\ browsers = {"b1"}
    /\ store = [b \in AllBrowsers |-> EmptySession]
    /\ inflight = EmptyBag
    /\ last = NoLast
    /\ fn = FnOff
    /\ clock = 0
    /\ expires = [b \in AllBrowsers |-> {}]
    /\ since = << >>
    /\ issued = << >>

Next ==
    \/ \E b \in browsers, m \in {"GET", "POST"} :
         \E c \in FormTokens(m) : LoginBegin(b, m, c)
    \/ \E r \in BagToSet(inflight), o \in LoginOutcomes : LoginRespond(r, o)
    \/ \E b \in browsers, m \in {"GET", "POST"} :
         \E c \in FormTokens(m) : RegisterBegin(b, m, c)
    \/ \E r \in BagToSet(inflight), o \in RegisterOutcomes : RegisterRespond(r, o)
    \/ \E b \in browsers : LogoutBegin(b, "missing")
    \/ \E r \in BagToSet(inflight), o \in OtherOutcomes : LogoutRespond(r, o)
    \/ \E b \in browsers, m \in SupportedMethods, e \in ProxyPaths :
         ProxyBegin(b, m, e, "missing")
    \/ \E r \in BagToSet(inflight), o \in OtherOutcomes : ProxyRespond(r, o)
    \/ \E b \in browsers : PageBegin(b, "missing")
    \/ \E r \in BagToSet(inflight), o \in PageOutcomes : PageRespond(r, o)
    \/ \E b \in browsers : Expire(b)

Spec == Init /\ [][Next]_vars

\* The proxy route on its own: sessions that log in, and proxy requests
\* for each method and for several URL paths.
ProxyUrls == {"incidents", "incidents/42/comments", "auth/logout"}

ProxyLogins ==
    { TransportOk(Envelope(TRUE, {LoginData(UserAna, PyStr("tok1"),
                                            {<<"refreshToken", PyStr("ref1")>>})})),
      TransportOk(Envelope(TRUE, {LoginData(UserBo, PyStr("tok2"), {})})),
      SomeFailure }

NextProxy ==
    \/ \E b \in browsers : LoginBegin(b, "POST", "valid")
    \/ \E r \in BagToSet(inflight), o \in ProxyLogins : LoginRespond(r, o)
    \/ \E b \in browsers, m \in SupportedMethods, e \in ProxyUrls :
         ProxyBegin(b, m, e, "missing")
    \/ \E r \in BagToSet(inflight), o \in OtherOutcomes : ProxyRespond(r, o)

SpecProxy == Init /\ [][NextProxy]_vars

\* Two browsers, each with its own session id, served by the same workers.
InitTwo ==
    /\ browsers = AllBrowsers
    /\ store = [b \in AllBrowsers |-> EmptySession]
    /\ inflight = EmptyBag
    /\ last = NoLast
    /\ fn = FnOff
    /\ clock = 0
    /\ expires = [b \in AllBrowsers |-> {}]
    /\ since = << >>
    /\ issued = << >>

NextTwo ==
    \/ \E b \in browsers : LoginBegin(b, "POST", "valid")
    \/ \E r \in BagToSet(inflight), o \in ProxyLogins : LoginRespond(r, o)
    \/ \E b \in browsers : LogoutBegin(b, "missing")
    \/ \E r \in BagToSet(inflight) : LogoutRespond(r, TransportOk(OkBody))
    \/ \E b \in browsers, m \in {"GET", "POST"}, e \in ProxyPaths :
         ProxyBegin(b, m, e, "missing")
    \/ \E r \in BagToSet(inflight), o \in OtherOutcomes : ProxyRespond(r, o)

SpecTwo == InitTwo /\ [][NextTwo]_vars

\* Two browsers that are given the same tokens by the backend, with the
\* history of the tokens that the logins of the first one were given: logins that succeed with and without a refresh token, one that stores a
\* token and then fails on a null user object, logouts and proxy requests.
TokenLogins ==
    ProxyLogins \cup
    { TransportOk(Envelope(TRUE, {LoginData(PyNone, PyStr("tok3"),
                                            {<<"refreshToken", PyStr("ref3")>>})})) }

InitTokens ==
    /\ browsers = AllBrowsers
    /\ store = [b \in AllBrowsers |-> EmptySession]
    /\ inflight = EmptyBag
    /\ last = NoLast
    /\ fn = FnOff
    /\ clock = 0
    /\ expires = [b \in AllBrowsers |-> {}]
    /\ since = << >>
    /\ issued = [b \in {"b1"} |-> NoneIssued]

NextTokens ==
    \/ \E b \in browsers : LoginBegin(b, "POST", "valid")
    \/ \E r \in BagToSet(inflight), o \in TokenLogins : LoginRespond(r, o)
    \/ \E b \in browsers : LogoutBegin(b, "missing")
    \/ \E r \in BagToSet(inflight) : LogoutRespond(r, TransportOk(OkBody))
    \/ \E b \in browsers, m \in {"GET", "POST"}, e \in ProxyPaths :
         ProxyBegin(b, m, e, "missing")
    \/ \E r \in BagToSet(inflight) : ProxyRespond(r, TransportOk(OkBody))

SpecTokens == InitTokens /\ [][NextTokens]_vars

\* The pages: a session that logs in and requests the dashboard and the
\* integrations page.
NextDash ==
    \/ \E b \in browsers : LoginBegin(b, "POST", "valid")
    \/ \E r \in BagToSet(inflight), o \in ProxyLogins : LoginRespond(r, o)
    \/ \E b \in browsers : DashBegin(b, "missing")
    \/ \E r \in BagToSet(inflight), o \in PageOutcomes : DashRespond(r, o)
    \/ \E b \in browsers : PageBegin(b, "missing")
    \/ \E r \in BagToSet(inflight), o \in PageOutcomes : PageRespond(r, o)

SpecDash == Init /\ [][NextDash]_vars

\* The same requests, with the history of logins and logouts kept.
InitHist ==
    /\ browsers = {"b1"}
    /\ store = [b \in AllBrowsers |-> EmptySession]
    /\ inflight = EmptyBag
    /\ last = NoLast
    /\ fn = FnOff
    /\ clock = 0
    /\ expires = [b \in AllBrowsers |-> {}]
    /\ since = [b \in AllBrowsers |-> {}]
    /\ issued = << >>

SpecHist == InitHist /\ [][Next]_vars

\* A session over time: login, logout, a page request, and the clock.
NextClock ==
    \/ \E b \in browsers : LoginBegin(b, "POST", "valid")
    \/ \E r \in BagToSet(inflight), o \in ProxyLogins : LoginRespond(r, o)
    \/ \E b \in browsers : LogoutBegin(b, "missing")
    \/ \E r \in BagToSet(inflight) : LogoutRespond(r, TransportOk(OkBody))
    \/ \E b \in browsers : PageBegin(b, "missing")
    \/ \E r \in BagToSet(inflight), o \in PageOutcomes : PageRespond(r, o)
    \/ \E h \in TickHours : Tick(h)

SpecClock == InitHist /\ [][NextClock]_vars

(***************************************************************************)
(* Properties.                                                             *)
(***************************************************************************)
Status(sess) ==
    IF is_authenticated(current_user(sess)) THEN "Authenticated"
    ELSE "Anonymous"

\* The values of the Authorization headers of an outbound call.
Authorization(call) == {h[2] : h \in {x \in call.headers : x[1] = "Authorization"}}

\* The backend call of a login ended in a transport failure or in a body
\* whose success flag is false or missing.
LoginCallFailed(outcome) ==
    \/ outcome.kind = "exc"
    \/ /\ outcome.kind = "json"
       /\ \/ outcome.body.t = "none"
          \/ /\ outcome.body.t = "dict"
             /\ \/ ~HasKey(outcome.body, "success")
                \/ Index(outcome.body, "success") = PyBool(FALSE)

SameCredentials(s1, s2) ==
    /\ s1.user_data = s2.user_data
    /\ s1.access_token = s2.access_token
    /\ s1.refresh_token = s2.refresh_token

\* C1: when the backend call of a POST to login ends in a reported failure
\* or a transport failure, the session written back holds the profile, the
\* access token and the refresh token the request loaded, and the session
\* is Anonymous.
C1_FailedLoginKeepsSession ==
    (last.kind = "login" /\ last.method = "POST" /\ LoginCallFailed(last.outcome))
        => /\ SameCredentials(store[last.b], last.loaded)
           /\ SameCredentials(last.sess, last.loaded)
           /\ Status(store[last.b]) = "Anonymous"
           /\ last.status = "render:login"

\* Scenario B has happened.
C1_Witness ==
    /\ last.kind = "login"
    /\ last.outcome = TransportOk(Envelope(FALSE,
                         {<<"error", PyStr("Invalid credentials")>>}))
    /\ last.flashed = PyStr("Invalid credentials")
    /\ store[last.b] = last.loaded

\* C2: in every reachable state a session record has its profile and its
\* access token both populated or both absent.
C2_NoPartialLoginState ==
    \A b \in AllBrowsers :
        \/ Truthy(store[b].user_data) /\ Truthy(store[b].access_token)
        \/ store[b].user_data = PyNone /\ store[b].access_token = PyNone

BothPopulated(sess) == Truthy(sess.user_data) /\ Truthy(sess.access_token)

ProtectedKinds == {"logout", "proxy", "page"}

\* The sessions requests have been resolved against.
SeenSessions ==
    {store[b] : b \in AllBrowsers} \cup {last.loaded, last.sess}
        \cup {r.loaded : r \in BagToSet(inflight)}

\* C3: load yields a Principal exactly for a session record with a
\* populated profile and a populated access token, and a request whose
\* record lacks either is handled as anonymous: a protected route sends it
\* to the login page without entering the view.
C3_LoadIffBothPopulated ==
    /\ \A sess \in SeenSessions :
         /\ (load_user(sess) # PyNone) <=> BothPopulated(sess)
         /\ (current_user(sess) # PyNone) <=> BothPopulated(sess)
    /\ \A r \in BagToSet(inflight) :
         r.kind \in ProtectedKinds => BothPopulated(r.loaded)
    /\ (last.kind \in ProtectedKinds /\ ~BothPopulated(last.loaded))
         => last.status = "redirect:login" /\ last.ncalls = 0
    /\ (last.kind \in ProtectedKinds /\ BothPopulated(last.loaded))
         => last.ncalls > 0 /\ last.outcome # NoOutcome

\* A record with a profile but no usable token was treated as anonymous.
C3_Witness ==
    /\ last.kind = "page"
    /\ Truthy(last.loaded.user_data)
    /\ ~Truthy(last.loaded.access_token)
    /\ last.status = "redirect:login"

\* Principal attribute and the key of the backend's user object it
\* corresponds to.
PrincipalFields ==
    { <<"id", "id">>, <<"email", "email">>, <<"first_name", "firstName">>,
      <<"last_name", "lastName">>, <<"role", "role">>,
      <<"department", "department">>, <<"job_title", "jobTitle">>,
      <<"avatar", "avatar">> }

\* The backend answered the login call with success true.
LoginCallSucceeded(outcome) ==
    /\ outcome.kind = "json"
    /\ outcome.body.t = "dict"
    /\ HasKey(outcome.body, "success")
    /\ Index(outcome.body, "success") = PyBool(TRUE)

\* The success answer carries a non-empty user object and a non-empty
\* accessToken.
LoginAnswerPopulated(outcome) ==
    /\ CanIndex(outcome.body, "data")
    /\ CanIndex(Index(outcome.body, "data"), "user")
    /\ CanIndex(Index(outcome.body, "data"), "accessToken")
    /\ Index(Index(outcome.body, "data"), "user").t = "dict"
    /\ Truthy(Index(Index(outcome.body, "data"), "user"))
    /\ Truthy(Index(Index(outcome.body, "data"), "accessToken"))

\* load in the session just saved yields a Principal with the fields of the
\* answer's user object (absent where the object has no such key) and the
\* answer's accessToken.
RoundTrip(sess, outcome) ==
    /\ CanIndex(outcome.body, "data")
    /\ CanIndex(Index(outcome.body, "data"), "user")
    /\ CanIndex(Index(outcome.body, "data"), "accessToken")
    /\ Index(Index(outcome.body, "data"), "user").t = "dict"
    /\ Status(sess) = "Authenticated"
    /\ load_user(sess) # PyNone
    /\ LET principal == load_user(sess)
           user      == Index(Index(outcome.body, "data"), "user")
       IN  /\ \A f \in PrincipalFields :
                principal[f[1]] = Get(user, f[2], PyNone)
           /\ principal.token = Index(Index(outcome.body, "data"), "accessToken")

\* C4 as stated: after a login that the backend answered with success
\* true, load returns a Principal matching the answer.
C4_Original ==
    (last.kind = "login" /\ LoginCallSucceeded(last.outcome))
        => RoundTrip(store[last.b], last.outcome)

\* C4: after a login that the backend answered with success true, a
\* non-empty user object and a non-empty accessToken, load in the same
\* session returns a Principal whose eight profile fields equal those of
\* the user object and whose token equals the accessToken.
C4_RoundTripPopulated ==
    (last.kind = "login" /\ LoginCallSucceeded(last.outcome)
       /\ LoginAnswerPopulated(last.outcome))
        => RoundTrip(store[last.b], last.outcome)

\* Scenario A has happened, and so has a login with a sparse profile.
C4_Witness ==
    /\ last.kind = "login"
    /\ LoginCallSucceeded(last.outcome)
    /\ LoginAnswerPopulated(last.outcome)
    /\ load_user(store[last.b]) # PyNone
    /\ load_user(store[last.b]).first_name = PyStr("Bo")
    /\ load_user(store[last.b]).last_name = PyNone
    /\ load_user(store[last.b]).token = PyStr("tok2")

\* C5: a logout request waiting for the backend has sent POST /auth/logout
\* with its session's bearer token and still holds its session; when the
\* call ends, whatever its outcome, the session is cleared and saved
\* cleared; no logout clears a session without having made the call.
C5_LogoutNotifiesThenClears ==
    /\ \A r \in Awaiting("logout") :
         /\ r.call.verb = "POST"
         /\ r.call.endpoint = "/auth/logout"
         /\ Authorization(r.call) = {<<"Bearer", r.loaded.access_token>>}
         /\ r.ncalls = 1
         /\ r.sess = r.loaded
         /\ Status(r.sess) = "Authenticated"
    /\ (last.kind = "logout" /\ last.outcome # NoOutcome)
         => /\ last.sess = EmptySession
            /\ store[last.b] = EmptySession
            /\ last.status = "redirect:login"
            /\ last.ncalls = 1
            /\ last.call.endpoint = "/auth/logout"
    /\ (last.kind = "logout" /\ last.sess # last.loaded) => last.ncalls = 1

\* A logout whose notification failed in transport cleared the session.
C5_Witness ==
    /\ last.kind = "logout"
    /\ last.outcome = SomeFailure
    /\ Status(last.loaded) = "Authenticated"
    /\ store[last.b] = EmptySession

\* C6: a proxy request whose session yields no Principal makes no outbound
\* call, for every method: no such request is ever waiting for the backend,
\* and it is answered by the login redirect.
C6_ProxyNeedsPrincipal ==
    /\ \A r \in Awaiting("proxy") :
         load_user(r.loaded) # PyNone /\ current_user(r.loaded) # PyNone
    /\ (last.kind = "proxy" /\ load_user(last.loaded) = PyNone)
         => /\ last.ncalls = 0
            /\ last.call = NoCall
            /\ last.outcome = NoOutcome
            /\ last.status = "redirect:login"

\* A proxy DELETE from a session that holds a token but no profile was
\* turned away.
C6_Witness ==
    /\ last.kind = "proxy"
    /\ last.method = "DELETE"
    /\ Truthy(last.loaded.access_token)
    /\ load_user(last.loaded) = PyNone
    /\ last.status = "redirect:login"

\* The token api_request is to use: the explicit one if given (truthy),
\* else the Principal's if the session is authenticated, else none.
ResolvedTokens(token, sess) ==
    IF token # PyNone /\ token # PyStr("") THEN {token}
    ELSE IF BothPopulated(sess) /\ sess.user_id # PyNone
         THEN {sess.access_token}
         ELSE {}

\* C7: for GET, POST, PUT and DELETE the outbound call has exactly one
\* Authorization header, "Bearer <token>", when a token is resolvable and
\* none otherwise.
C7_OneAuthorizationHeader ==
    (fn.phase \in {"sent", "returned"} /\ fn.method \in SupportedMethods)
        => /\ fn.call.verb = fn.method
           /\ {h \in fn.call.headers : h[1] = "Authorization"}
                = {<<"Authorization", <<"Bearer", t>> >> :
                     t \in ResolvedTokens(fn.token, fn.sess)}
           /\ Cardinality({h \in fn.call.headers : h[1] = "Authorization"}) <= 1

\* An explicit token was sent from an authenticated session.
C7_Witness ==
    /\ fn.phase = "sent"
    /\ fn.method = "PUT"
    /\ fn.token = PyStr("tokX")
    /\ Status(fn.sess) = "Authenticated"
    /\ Authorization(fn.call) = {<<"Bearer", PyStr("tokX")>>}

\* C8: when the transport call fails, whatever the cause, api_request
\* returns {success: false, error: "API connection failed"} and does not
\* raise.
C8_TransportFailureIsSynthetic ==
    (fn.phase = "returned" /\ fn.outcome.kind = "exc")
        => /\ fn.result.how = "ret"
           /\ fn.result.value =
                PyDict({<<"success", PyBool(FALSE)>>,
                        <<"error", PyStr("API connection failed")>>})

\* A body that is not JSON was turned into the synthetic failure.
C8_Witness ==
    /\ fn.phase = "returned"
    /\ fn.outcome = TransportFailure("malformed")
    /\ fn.result.how = "ret"

\* C9: a login request that loads an Authenticated session makes no
\* backend call and writes the session back as it loaded it; every call
\* the login view makes to /auth/login comes from a request that loaded an
\* Anonymous session and carries no Authorization header.
C9_LoginOnlyFromAnonymous ==
    /\ \A r \in Awaiting("login") :
         /\ Status(r.loaded) = "Anonymous"
         /\ r.call.endpoint = "/auth/login"
         /\ Authorization(r.call) = {}
    /\ (last.kind = "login" /\ Status(last.loaded) = "Authenticated")
         => /\ last.ncalls = 0
            /\ last.call = NoCall
            /\ last.sess = last.loaded
            /\ store[last.b] = last.loaded
    /\ (last.kind = "login" /\ last.ncalls > 0)
         => /\ Status(last.loaded) = "Anonymous"
            /\ Authorization(last.call) = {}

\* No step takes a stored record from Authenticated to a different
\* Authenticated record.
NoReLogin ==
    \A b \in AllBrowsers :
        (Status(store[b]) = "Authenticated" /\ Status(store'[b]) = "Authenticated")
            => store'[b] = store[b]

\* C9 as stated: the session's status moves only along Anonymous ->
\* Authenticating -> Authenticated -> Anonymous, with no Authenticated ->
\* Authenticated transition, and login calls are made from Anonymous
\* without an Authorization header.
C9_Original == [][NoReLogin]_vars /\ []C9_LoginOnlyFromAnonymous

\* A POST to login from an authenticated session was redirected.
C9_Witness ==
    /\ last.kind = "login"
    /\ last.method = "POST"
    /\ Status(last.loaded) = "Authenticated"
    /\ last.status = "redirect:dashboard"
    /\ last.ncalls = 0

\* C10: a logout that directly follows a logout of the same session ends
\* without an error, by the same redirect, and leaves the session as the
\* first one left it: Anonymous, load absent.
C10_LogoutTwice ==
    (last.kind = "logout" /\ last.prev.kind = "logout")
        => /\ last.status = "redirect:login"
           /\ store[last.b] = last.loaded
           /\ last.sess = last.loaded
           /\ Status(store[last.b]) = "Anonymous"
           /\ load_user(store[last.b]) = PyNone
           /\ (last.prev.called => store[last.b] = EmptySession)

\* A logout followed a logout that had cleared an authenticated session.
C10_Witness ==
    /\ last.kind = "logout"
    /\ last.prev = [kind |-> "logout", called |-> TRUE]
    /\ last.status = "redirect:login"
    /\ store[last.b] = EmptySession

\* C11: load returns absent in a session in which no login has yet
\* succeeded, and in every state after a logout cleared the session until
\* the next login succeeds.
C11_AbsentUntilLogin ==
    \A b \in DOMAIN since :
        since[b] = {} => load_user(store[b]) = PyNone

\* C12: the registration call is a POST to /auth/register without an
\* Authorization header, made from an Anonymous session, and whatever its
\* outcome the session written back is the one the request loaded and is
\* Anonymous.
C12_RegisterKeepsSession ==
    /\ \A r \in Awaiting("register") :
         /\ r.call.verb = "POST"
         /\ r.call.endpoint = "/auth/register"
         /\ r.call.json = RegisterForm
         /\ r.args.token = PyNone
         /\ Authorization(r.call) = {}
         /\ r.sess = r.loaded
         /\ Status(r.loaded) = "Anonymous"
    /\ (last.kind = "register" /\ last.ncalls > 0)
         => /\ last.outcome \in RegisterOutcomes
            /\ last.sess = last.loaded
            /\ store[last.b] = last.loaded
            /\ Status(store[last.b]) = "Anonymous"
            /\ Authorization(last.call) = {}

\* A registration the backend accepted left a session without a Principal.
C12_Witness ==
    /\ last.kind = "register"
    /\ last.outcome = TransportOk(OkBody)
    /\ last.status = "redirect:login"
    /\ store[last.b] = last.loaded
    /\ load_user(store[last.b]) = PyNone

\* The outbound call changes state at the backend.
StateMutating(call) == call.verb \in {"POST", "PUT", "DELETE"}

\* C13: the proxy view is the only view exempt from the CSRF check, and
\* every request that is accepted without a valid CSRF token and makes a
\* state-mutating backend call or changes its session is a proxy request
\* from an Authenticated session.
C13_CsrfExemption ==
    /\ CsrfExempt = {"proxy"}
    /\ \A r \in BagToSet(inflight) :
         (r.req.csrf # "valid" /\ StateMutating(r.call))
            => r.kind = "proxy" /\ Status(r.loaded) = "Authenticated"
    /\ ( /\ last.req.csrf # "valid"
         /\ \/ last.sess # last.loaded
            \/ last.ncalls > 0 /\ StateMutating(last.call) )
         => last.kind = "proxy" /\ Status(last.loaded) = "Authenticated"

\* What api_proxy is to hand to api_request for a request: the method, the
\* path after a slash, the JSON body for POST and PUT and the query
\* parameters otherwise, and no explicit token.
ProxyArgs(method, req) ==
    [method |-> method, endpoint |-> "/" \o req.endpoint,
     data |-> IF method \in {"POST", "PUT"} THEN ReqJson ELSE ReqArgs,
     token |-> PyNone]

\* C14: a proxy request from an Authenticated session invokes api_request
\* with the request's method, "/" followed by the request's path, and the
\* JSON body (POST, PUT) or the query parameters (GET, DELETE); the call
\* goes to that path with the session's token as bearer; the response body
\* is what api_request returned: the backend's body, or the synthetic
\* failure.
C14_ProxyForwards ==
    /\ \A r \in Awaiting("proxy") :
         /\ Status(r.loaded) = "Authenticated"
         /\ r.args = ProxyArgs(r.method, r.req)
         /\ r.ncalls = 1
         /\ r.call.verb = r.method
         /\ r.call.endpoint = "/" \o r.req.endpoint
         /\ Authorization(r.call) = {<<"Bearer", r.loaded.access_token>>}
    /\ (last.kind = "proxy" /\ Status(last.loaded) = "Authenticated")
         => /\ last.args = ProxyArgs(last.method, last.req)
            /\ last.ncalls = 1
            /\ Authorization(last.call) = {<<"Bearer", last.loaded.access_token>>}
            /\ last.status = "json"
            /\ last.outcome.kind = "json" => last.body = last.outcome.body
            /\ last.outcome.kind = "exc" => last.body = SyntheticFailure

\* Scenario C has happened, and so has a PUT to a nested path.
C14_Witness ==
    /\ last.kind = "proxy"
    /\ last.method = "GET"
    /\ last.ncalls = 1
    /\ last.req.endpoint = "incidents"
    /\ last.args.endpoint = "/incidents"
    /\ last.args.data = PyDict({<<"state", PyStr("OPEN")>>})
    /\ last.call.params = last.args.data
    /\ Authorization(last.call) = {<<"Bearer", PyStr("tok1")>>}
    /\ last.body = OkBody
    /\ \E r \in Awaiting("proxy") :
         /\ r.method = "PUT"
         /\ r.args.endpoint = "/incidents/42/comments"
         /\ r.call.json = ReqJson

\* A step of the two browsers: a record of the store changes only in the
\* step that answers a request of its own browser, and a request that
\* starts waiting for the backend has loaded the record of its own browser
\* and sends no bearer token but that record's.
SessionsApart ==
    /\ \A b \in AllBrowsers : store'[b] # store[b] => last'.b = b
    /\ \A r \in BagToSet(inflight') :
         CopiesIn(r, inflight') > CopiesIn(r, inflight)
            => /\ r.loaded = store[r.b]
               /\ Authorization(r.call)
                    \subseteq {<<"Bearer", store[r.b].access_token>>}
    /\ \A r \in BagToSet(inflight') :
         Authorization(r.call) \subseteq {<<"Bearer", r.loaded.access_token>>}

\* C15: whatever the interleaving of the requests of two browsers, a
\* request of one browser leaves the other browser's record unchanged, and
\* a call made for a browser carries the token of that browser's own
\* record or none.
C15_SessionsApart == [][SessionsApart]_vars

\* Browser b1 has logged out while b2, logged in as another user, keeps
\* its record and has a call in flight with its own token.
C15_Witness ==
    /\ last.b = "b1"
    /\ last.kind = "logout"
    /\ last.loaded.access_token = PyStr("tok1")
    /\ store["b1"] = EmptySession
    /\ store["b2"].access_token = PyStr("tok2")
    /\ \E r \in BagToSet(inflight) :
         /\ r.b = "b2"
         /\ r.kind = "proxy"
         /\ Authorization(r.call) = {<<"Bearer", PyStr("tok2")>>}

\* C16: api_request called with a method other than GET, POST, PUT and
\* DELETE makes no transport call and returns a failure on which the
\* success flag can be read: a dict whose success is false.
C16_UnsupportedIsFailure ==
    (fn.phase = "returned" /\ fn.method \notin SupportedMethods)
        => /\ fn.call = NoCall
           /\ fn.outcome = NoOutcome
           /\ fn.result.how = "ret"
           /\ CanGet(fn.result.value)
           /\ Get(fn.result.value, "success", PyNone) = PyBool(FALSE)

\* C17: once PERMANENT_SESSION_LIFETIME has passed since the save of a
\* login, the record is gone and load returns absent, whatever the session
\* did in between.
C17_AbsoluteLifetime ==
    \A b \in DOMAIN since :
        \A t \in since[b] :
            clock >= t + PERMANENT_SESSION_LIFETIME
                => load_user(store[b]) = PyNone

\* Every call of the request ended in a transport failure.
BackendUnreachable(got) ==
    got # << >> /\ \A i \in 1..Len(got) : got[i] = SyntheticFailure

\* C18: when every backend call of an authenticated GET /dashboard fails
\* in transport, the dashboard template is rendered and each of
\* dashboard_data, kpis and quick_stats is an empty object; and a page
\* request whose backend call failed renders its template.
C18_DashboardSurvivesOutage ==
    /\ (last.kind = "dashboard" /\ BackendUnreachable(last.got))
         => /\ Len(last.got) = 3
            /\ last.status = "render:dashboard"
            /\ \A k \in {"dashboard_data", "kpis", "quick_stats"} :
                 /\ CanIndex(last.body, k)
                 /\ Index(last.body, k) = PyDict({})
    /\ (last.kind = "page" /\ BackendUnreachable(last.got))
         => /\ last.status = "render:integrations"
            /\ last.body = EmptyList

\* The generic message of the login and of the registration view.
GenericMessage(kind) ==
    IF kind = "login" THEN PyStr("Login failed")
    ELSE PyStr("Registration failed")

\* C19: after a login or a registration whose backend call failed, the
\* form is shown again with: the connection-failure message when the
\* call failed in transport; the backend's error, as it is, when the body
\* carries one; the generic message of the view when the body is a
\* non-empty object without an error; and the generic message only for a
\* body without an error (or whose error is that very text).
C19_FailureMessage ==
    ( /\ last.kind \in {"login", "register"}
      /\ last.ncalls > 0
      /\ LoginCallFailed(last.outcome) )
        => /\ last.status = "render:" \o last.kind
           /\ last.outcome.kind = "exc"
                => last.flashed = PyStr("API connection failed")
           /\ (last.outcome.kind = "json" /\ CanIndex(last.outcome.body, "error"))
                => last.flashed = Index(last.outcome.body, "error")
           /\ ( /\ last.outcome.kind = "json"
                /\ last.outcome.body.t = "dict"
                /\ Truthy(last.outcome.body)
                /\ ~HasKey(last.outcome.body, "error") )
                => last.flashed = GenericMessage(last.kind)
           /\ last.flashed = GenericMessage(last.kind)
                => /\ last.outcome.kind = "json"
                   /\ last.outcome.body.t = "dict"
                   /\ \/ ~HasKey(last.outcome.body, "error")
                      \/ Index(last.outcome.body, "error")
                            = GenericMessage(last.kind)

\* A registration the backend refused without a message showed the
\* generic message.
C19_Witness ==
    /\ last.kind = "register"
    /\ last.outcome = TransportOk(Envelope(FALSE, {}))
    /\ last.status = "render:register"
    /\ last.flashed = PyStr("Registration failed")

\* C20: api_request with a supported method makes one transport call, of
\* that method, and no second one: GET passes the payload as params and
\* no body, DELETE passes neither, POST and PUT pass it as the JSON body;
\* when the call succeeds the result is the parsed body as it is.
C20_OneCallPerForward ==
    /\ fn.phase = "args" => fn.ncalls = 0
    /\ (fn.phase \in {"sent", "returned"} /\ fn.method \in SupportedMethods)
         => /\ fn.ncalls = 1
            /\ fn.call.verb = fn.method
            /\ fn.call.timeout = 10
            /\ fn.method = "GET"
                 => fn.call.params = fn.data /\ fn.call.json = NotSent
            /\ fn.method = "DELETE"
                 => fn.call.params = NotSent /\ fn.call.json = NotSent
            /\ fn.method \in {"POST", "PUT"}
                 => fn.call.json = fn.data /\ fn.call.params = NotSent
            /\ (fn.phase = "returned" /\ fn.outcome.kind = "json")
                 => fn.result = Returned(fn.outcome.body)

\* A DELETE given a payload sent none of it and returned the backend's
\* refusal as it came.
C20_Witness ==
    /\ fn.phase = "returned"
    /\ fn.method = "DELETE"
    /\ fn.data = ReqArgs
    /\ fn.ncalls = 1
    /\ fn.call.params = NotSent
    /\ fn.outcome = TransportOk(ForbiddenBody)
    /\ fn.result = Returned(ForbiddenBody)


\* The step answers the request r, which was in flight.
Answers(r) ==
    /\ BagIn(r, inflight)
    /\ inflight' = inflight (-) SetToBag({r})
    /\ last'.b = r.b
    /\ last'.kind = r.kind

\* A request of a logged-out session (a logout has cleared it, or no login
\* has succeeded in it, and load returns absent) that is still in flight is
\* answered, and the step is not a login that succeeds: load returns absent
\* in the session after the step too.
StaysLoggedOut ==
    \A r \in BagToSet(inflight) :
        ( /\ r.b \in DOMAIN since
          /\ since[r.b] = {}
          /\ load_user(store[r.b]) = PyNone
          /\ Answers(r)
          /\ since'[r.b] = {} )
        => load_user(store'[r.b]) = PyNone

\* C21: once a logout of a session has completed, load returns absent in
\* that session until the next login succeeds, also when requests of the
\* same session that read the session record before the logout are
\* answered after it.
C21_LogoutDurable == [][StaysLoggedOut]_vars


\* The Python value x occurs in the value v.
RECURSIVE Mentions(_, _)
Mentions(v, x) ==
    \/ v = x
    \/ /\ v.t = "dict"
       /\ \E p \in v.items : Mentions(p[2], x)

\* The outbound call carries the token x: as its bearer token, in its
\* query parameters or in its JSON body.
Carries(call, x) ==
    \/ \E a \in Authorization(call) : a[2] = x
    \/ Mentions(call.params, x)
    \/ Mentions(call.json, x)

\* The refresh tokens a login has stored in, or the backend has returned
\* to, some session.
RefreshTokens ==
    (UNION {issued[b].refresh : b \in DOMAIN issued}
       \cup {store[b].refresh_token : b \in AllBrowsers}
       \cup {r.loaded.refresh_token : r \in BagToSet(inflight)}) \ {PyNone}

\* C22: the bearer token of every outbound call made for a request of a
\* session is the access token of the record from which the request's
\* Principal was resolved, and the backend returned it in a login of that
\* same session that succeeded; no outbound call carries a refresh token.
C22_TokenProvenance ==
    \A r \in BagToSet(inflight) :
        /\ \A a \in Authorization(r.call) :
             /\ load_user(r.loaded) # PyNone
             /\ a = <<"Bearer", r.loaded.access_token>>
             /\ r.b \in DOMAIN issued =>
                  r.loaded.access_token \in issued[r.b].access
        /\ \A x \in RefreshTokens : ~Carries(r.call, x)

\* A proxy call is in flight with the access token of its session, which
\* also holds a refresh token, while the other session is logged in with
\* an access token that was never given to this one.
C22_Witness ==
    \E r \in BagToSet(inflight) :
        /\ r.kind = "proxy"
        /\ r.b \in DOMAIN issued
        /\ Authorization(r.call) = {<<"Bearer", r.loaded.access_token>>}
        /\ r.loaded.refresh_token # PyNone
        /\ r.loaded.refresh_token \in issued[r.b].refresh
        /\ \E b \in browsers :
             /\ b # r.b
             /\ load_user(store[b]) # PyNone
             /\ store[b].access_token \notin issued[r.b].access

====
